---- MODULE Spec2Model ----
(***************************************************************************)
(* Visioncraft: the generation client (services/geminiService.ts) and the  *)
(* result record of the App component that drives it.                      *)
(*                                                                         *)
(*   retryOperation              the bounded retry loop with backoff       *)
(*   generateAdvertisementImage  request assembly, apiCall, error          *)
(*                               classifier                                *)
(*   App / handleGenerate        the GenerationResult record of the UI     *)
(*                                                                         *)
(* Text is modelled by what the code asks of it.  The code never looks at  *)
(* a serialized error except through String.includes with a fixed list of *)
(* needles, so a serialized error is the set of the needles' occurrences   *)
(* it holds ("marks"); includes() is computed from it, substring relation  *)
(* between the needles included ("limit" occurs in "limit: 0").            *)
(***************************************************************************)
EXTENDS Integers, Sequences, FiniteSets, TLC

\* ------------------------------------------------------------------ bounds

\* largest maxRetries argument tried on retryOperation called on its own
MaxRetriesBound == 3

\* ------------------------------------------------------- program constants

DefaultMaxRetries == 3
DefaultBaseDelay == 10000

\* ------------------------------------------------------------ error values

\* The needles the code searches a serialized error for.
ZeroQuotaNeedles == {"limit: 0", "limit:0"}

Markers ==
  ZeroQuotaNeedles \cup
  {"429", "RESOURCE_EXHAUSTED", "quota", "503",
   "403", "PERMISSION_DENIED", "404", "NOT_FOUND", "limit"}

\* An error value: the needles occurring in its serialization (own
\* properties only: message, stack and whatever own fields it has), its
\* status field as error.status reads it (0: none; it may be inherited and
\* then does not show in the serialization), and its message ("": none).
MkError(marks, status, message) ==
  [marks |-> marks, status |-> status, message |-> message]

\* lastError before the first catch
Undefined == MkError({}, 0, "<undefined>")

\* String.prototype.includes on the needles: needle occurs in text m
OccursIn(needle, m) ==
  \/ m = needle
  \/ needle = "limit" /\ m \in ZeroQuotaNeedles

\* JSON.stringify(error, Object.getOwnPropertyNames(error))
errStringOf(error) == error.marks

includes(errString, needle) == \E m \in errString : OccursIn(needle, m)

\* ---------------------------------------------------------- retryOperation

VARIABLES
  rPc,          \* "idle" | "loop" (at the for test) | "sleep" (awaiting the
                \* setTimeout promise) | "returned" | "thrown"
  maxRetries,   \* parameter
  baseDelay,    \* parameter
  i,            \* loop index
  lastError,    \* let lastError
  rOut,         \* what the call returned or threw
  attempts,     \* log: the outcome of every invocation of operation, in order
  delays        \* log: the timeout of every setTimeout, in order

retryVars == <<rPc, maxRetries, baseDelay, i, lastError, rOut, attempts, delays>>

NoOutcome == [kind |-> "none", value |-> "", error |-> Undefined]
Returned(v) == [kind |-> "return", value |-> v, error |-> Undefined]
Thrown(e) == [kind |-> "throw", value |-> "", error |-> e]

Resolved(v) == [ok |-> TRUE, value |-> v, error |-> Undefined]
Rejected(e) == [ok |-> FALSE, value |-> "", error |-> e]

\* new Error("QUOTA_ZERO"): neither its message nor its stack holds a needle
\* (the search is case sensitive)
QuotaZeroError == MkError({}, 0, "QUOTA_ZERO")

isZeroQuota(error) ==
  \/ includes(errStringOf(error), "limit: 0")
  \/ includes(errStringOf(error), "limit:0")

isRateLimit_WithLimit(error) ==
  \/ includes(errStringOf(error), "429")
  \/ includes(errStringOf(error), "RESOURCE_EXHAUSTED")
  \/ includes(errStringOf(error), "quota")
  \/ includes(errStringOf(error), "limit")
  \/ error.status = 429

isRateLimit(error) ==
  \/ includes(errStringOf(error), "429")
  \/ includes(errStringOf(error), "RESOURCE_EXHAUSTED")
  \/ includes(errStringOf(error), "quota")
  \/ error.status = 429

isServerOverload(error) ==
  \/ includes(errStringOf(error), "503")
  \/ error.status = 503

CatchDecision_RetryFirst(error) ==
  IF isRateLimit(error) \/ isServerOverload(error) THEN "retry"
  ELSE IF isZeroQuota(error) THEN "quota_zero"
  ELSE "rethrow"

CatchDecision_RetryAll(error) ==
  IF isZeroQuota(error) THEN "quota_zero" ELSE "retry"

CatchDecision_RetryNotFound(error) ==
  IF isZeroQuota(error) THEN "quota_zero"
  ELSE IF \/ isRateLimit(error) \/ isServerOverload(error)
          \/ includes(errStringOf(error), "NOT_FOUND")
    THEN "retry"
  ELSE "rethrow"

\* the catch block's three ways out, in the order the code tests them
CatchDecision(error) ==
  IF isZeroQuota(error) THEN "quota_zero"
  ELSE IF isRateLimit(error) \/ isServerOverload(error) THEN "retry"
  ELSE "rethrow"

BackoffDelay(bd, idx) == bd * 2^idx

LoopTest_OffByOne(idx, mr) == idx <= mr

\* for (...; i < maxRetries; ...)
LoopTest(idx, mr) == idx < mr

RetryEnter_FromOne(mr, bd) ==
  /\ rPc' = "loop"
  /\ maxRetries' = mr
  /\ baseDelay' = bd
  /\ i' = 1
  /\ lastError' = Undefined
  /\ rOut' = NoOutcome
  /\ attempts' = <<>>
  /\ delays' = <<>>

\* retryOperation(operation, mr, bd) is entered
RetryEnter(mr, bd) ==
  /\ rPc' = "loop"
  /\ maxRetries' = mr
  /\ baseDelay' = bd
  /\ i' = 0
  /\ lastError' = Undefined
  /\ rOut' = NoOutcome
  /\ attempts' = <<>>
  /\ delays' = <<>>

AttemptResolve_NoReturn(v) ==
  /\ rPc = "loop"
  /\ LoopTest(i, maxRetries)
  /\ attempts' = Append(attempts, Resolved(v))
  /\ i' = i + 1
  /\ UNCHANGED <<rPc, rOut, maxRetries, baseDelay, lastError, delays>>

\* operation() is invoked and resolves: return await operation()
AttemptResolve(v) ==
  /\ rPc = "loop"
  /\ LoopTest(i, maxRetries)
  /\ attempts' = Append(attempts, Resolved(v))
  /\ rPc' = "returned"
  /\ rOut' = Returned(v)
  /\ UNCHANGED <<maxRetries, baseDelay, i, lastError, delays>>

\* operation() is invoked and rejects with error: the catch block
AttemptReject(error) ==
  /\ rPc = "loop"
  /\ LoopTest(i, maxRetries)
  /\ attempts' = Append(attempts, Rejected(error))
  /\ lastError' = error
  /\ CASE CatchDecision(error) = "quota_zero" ->
            /\ rPc' = "thrown"
            /\ rOut' = Thrown(QuotaZeroError)
            /\ UNCHANGED delays
       [] CatchDecision(error) = "retry" ->
            /\ rPc' = "sleep"
            /\ delays' = Append(delays, BackoffDelay(baseDelay, i))
            /\ UNCHANGED rOut
       [] OTHER ->
            /\ rPc' = "thrown"
            /\ rOut' = Thrown(error)
            /\ UNCHANGED delays
  /\ UNCHANGED <<maxRetries, baseDelay, i>>

\* the timer fires: continue, i++
TimerFires ==
  /\ rPc = "sleep"
  /\ rPc' = "loop"
  /\ i' = i + 1
  /\ UNCHANGED <<maxRetries, baseDelay, lastError, rOut, attempts, delays>>

LoopExit_ThrowsFirst ==
  /\ rPc = "loop"
  /\ ~LoopTest(i, maxRetries)
  /\ rPc' = "thrown"
  /\ rOut' = Thrown(attempts[1].error)
  /\ UNCHANGED <<maxRetries, baseDelay, i, lastError, attempts, delays>>

\* the for test fails: throw lastError
LoopExit ==
  /\ rPc = "loop"
  /\ ~LoopTest(i, maxRetries)
  /\ rPc' = "thrown"
  /\ rOut' = Thrown(lastError)
  /\ UNCHANGED <<maxRetries, baseDelay, i, lastError, attempts, delays>>

\* ----------------------------------------------- generateAdvertisementImage

\* string | null arguments: null is NullString for plain strings; base64
\* text is kept as its split(',') segments, null being no segment at all
NullString == "<null>"
Null == <<>>

TruthyString(s) == s \notin {NullString, ""}
TruthyBase64(b) == b # Null /\ b # <<"">>

\* cleanBase64: the text after the first comma when there is a comma
cleanBase64(base64) == IF Len(base64) > 1 THEN base64[2] ELSE base64[1]

LogoInputLine == "2. Brand Logo (Apply to product)."
LogoDirectiveLine ==
  "- COMPOSITE the logo onto the product surface naturally (respect geometry/lighting). Do not float it."

\* the template literal, line by line
PromptLines(a) ==
  << "Create a high-end, aesthetic advertisement image.",
     "Inputs:",
     "1. Product Image (Focus).",
     IF TruthyBase64(a.logoBase64) THEN LogoInputLine ELSE "",
     "3. Brief: " \o a.description,
     "Directives:",
     "- Integrate the product naturally into a generated background matching the brief.",
     "- Photorealistic lighting and composition.",
     IF TruthyBase64(a.logoBase64) THEN LogoDirectiveLine ELSE "",
     "- No text overlays." >>

\* a part of the payload; a text is kept as its lines
InlineDataPart(data, mimeType) ==
  [kind |-> "inlineData", data |-> data, mimeType |-> mimeType, text |-> <<>>]
TextPart(lines) ==
  [kind |-> "text", data |-> "", mimeType |-> "", text |-> lines]

\* const parts = []; parts.push(...)
BuildParts(a) ==
  << InlineDataPart(cleanBase64(a.productBase64), a.productMimeType),
     TextPart(<<"Product Image">>) >>
  \o (IF TruthyBase64(a.logoBase64) /\ TruthyString(a.logoMimeType)
        THEN << InlineDataPart(cleanBase64(a.logoBase64), a.logoMimeType),
                TextPart(<<"Brand Logo">>) >>
        ELSE << >>)
  \o << TextPart(PromptLines(a)) >>

ModelName_AlwaysFree(pro) == "gemini-2.5-flash-image"

ModelName(pro) ==
  IF pro THEN "gemini-3-pro-image-preview" ELSE "gemini-2.5-flash-image"

\* imageConfig: imageSize "" stands for the property not being set
ImageConfig(a) ==
  [aspectRatio |-> a.aspectRatio,
   imageSize |-> IF a.useProModel THEN "1K" ELSE ""]

VARIABLES
  gPc,          \* "idle" | "retrying" (await retryOperation(apiCall)) |
                \* "returned" | "thrown"
  args,         \* the arguments of the call
  parts,        \* const parts
  modelName,    \* const modelName
  imageConfig,  \* const imageConfig
  requests,     \* log: the generateContent requests sent, in order
  gOut          \* what the call returned or threw

genVars == <<gPc, args, parts, modelName, imageConfig, requests, gOut>>

NoArgs ==
  [description |-> "", productBase64 |-> Null, productMimeType |-> NullString,
   logoBase64 |-> Null, logoMimeType |-> NullString,
   aspectRatio |-> "", useProModel |-> FALSE]

NoImageConfig == [aspectRatio |-> "", imageSize |-> ""]

\* new Error("No image was generated. ...")
NoImageError ==
  MkError({}, 0, "No image was generated. The model might have returned only text.")

FirstInlineData_LastPart(ps) ==
  LET inline == {n \in 1..Len(ps) : ps[n].kind = "inlineData"} IN
  IF inline = {} THEN Rejected(NoImageError)
  ELSE LET n == CHOOSE x \in inline : \A y \in inline : y <= x
       IN Resolved("data:image/png;base64," \o ps[n].data)

RECURSIVE FirstInlineData(_)
\* for (const part of ...) if (part.inlineData) return ...
FirstInlineData(ps) ==
  IF ps = <<>> THEN Rejected(NoImageError)
  ELSE IF Head(ps).kind = "inlineData"
         THEN Resolved("data:image/png;base64," \o Head(ps).data)
         ELSE FirstInlineData(Tail(ps))

\* what apiCall makes of a response: response.candidates?.[0]?.content?.parts || []
ApiCallOutcome(responseParts) == FirstInlineData(responseParts)

AccessRestrictedMessage ==
  "Access Restricted: Your Google Cloud project has a quota of 0 for this model. Ensure the 'Generative Language API' is enabled in your Google Cloud Console, or try a different region (US is recommended)."
BillingRequiredMessage ==
  "Permission Denied: The 'Pro' model requires a Google Cloud project with billing enabled. Please switch back to 'Standard' for free generation."
ModelNotAvailableMessage(pro) ==
  "Model not available. The " \o (IF pro THEN "Pro" ELSE "Standard")
    \o " model is not accessible with your current API key."
FreeTierLimitMessage ==
  "Free Tier Limit Reached: You are generating images too fast or have hit the daily limit. Please wait 1-2 minutes and try again."
GenericFailureMessage == "Failed to generate advertisement."

ClassifyError_OverloadAsRate(error, pro) ==
  LET errString == errStringOf(error) IN
  IF \/ error.message = "QUOTA_ZERO"
     \/ includes(errString, "limit: 0") \/ includes(errString, "limit:0")
    THEN AccessRestrictedMessage
  ELSE IF pro /\ (includes(errString, "403") \/ includes(errString, "PERMISSION_DENIED"))
    THEN BillingRequiredMessage
  ELSE IF includes(errString, "404") \/ includes(errString, "NOT_FOUND")
    THEN ModelNotAvailableMessage(pro)
  ELSE IF \/ includes(errString, "429") \/ includes(errString, "RESOURCE_EXHAUSTED")
          \/ includes(errString, "quota") \/ includes(errString, "limit")
          \/ includes(errString, "503")
    THEN FreeTierLimitMessage
  ELSE IF error.message # "" THEN error.message ELSE GenericFailureMessage

ClassifyError_LimitFirst(error, pro) ==
  LET errString == errStringOf(error) IN
  IF \/ includes(errString, "429") \/ includes(errString, "RESOURCE_EXHAUSTED")
     \/ includes(errString, "quota") \/ includes(errString, "limit")
    THEN FreeTierLimitMessage
  ELSE IF \/ error.message = "QUOTA_ZERO"
          \/ includes(errString, "limit: 0") \/ includes(errString, "limit:0")
    THEN AccessRestrictedMessage
  ELSE IF pro /\ (includes(errString, "403") \/ includes(errString, "PERMISSION_DENIED"))
    THEN BillingRequiredMessage
  ELSE IF includes(errString, "404") \/ includes(errString, "NOT_FOUND")
    THEN ModelNotAvailableMessage(pro)
  ELSE IF error.message # "" THEN error.message ELSE GenericFailureMessage

ClassifyError_RawMessage(error, pro) ==
  LET errString == errStringOf(error) IN
  IF \/ error.message = "QUOTA_ZERO"
     \/ includes(errString, "limit: 0") \/ includes(errString, "limit:0")
    THEN AccessRestrictedMessage
  ELSE IF pro /\ (includes(errString, "403") \/ includes(errString, "PERMISSION_DENIED"))
    THEN BillingRequiredMessage
  ELSE IF includes(errString, "404") \/ includes(errString, "NOT_FOUND")
    THEN ModelNotAvailableMessage(pro)
  ELSE IF \/ includes(errString, "429") \/ includes(errString, "RESOURCE_EXHAUSTED")
          \/ includes(errString, "quota") \/ includes(errString, "limit")
    THEN FreeTierLimitMessage
  ELSE error.message

\* the catch block of generateAdvertisementImage: the message of the Error
\* it throws
ClassifyError(error, pro) ==
  LET errString == errStringOf(error) IN
  IF \/ error.message = "QUOTA_ZERO"
     \/ includes(errString, "limit: 0") \/ includes(errString, "limit:0")
    THEN AccessRestrictedMessage
  ELSE IF pro /\ (includes(errString, "403") \/ includes(errString, "PERMISSION_DENIED"))
    THEN BillingRequiredMessage
  ELSE IF includes(errString, "404") \/ includes(errString, "NOT_FOUND")
    THEN ModelNotAvailableMessage(pro)
  ELSE IF \/ includes(errString, "429") \/ includes(errString, "RESOURCE_EXHAUSTED")
          \/ includes(errString, "quota") \/ includes(errString, "limit")
    THEN FreeTierLimitMessage
  ELSE IF error.message # "" THEN error.message ELSE GenericFailureMessage

\* ---------------------------------------------------------------- App state

VARIABLES
  isCheckingKey,  \* useState(true)
  hasApiKey,      \* useState(false)
  productImage,   \* UploadedImage | null
  logoImage,      \* UploadedImage | null
  description,    \* string
  aspectRatio,    \* AspectRatio
  useProModel,    \* boolean
  shareCaption,   \* string
  result,         \* GenerationResult: imageUrl, loading, error
  hPc,            \* handleGenerate: "idle" | "awaiting" (the await of line 87)
  aistudio,       \* whether window.aistudio exists
  envApiKey       \* VITE_API_KEY || process.env.API_KEY: the key, "" when unset

uiVars ==
  <<isCheckingKey, hasApiKey, productImage, logoImage, description, aspectRatio,
    useProModel, shareCaption, result, hPc, aistudio, envApiKey>>

vars == <<retryVars, genVars, uiVars>>

\* generateAdvertisementImage(a) is entered: the payload is assembled and
\* retryOperation(apiCall) is called with its default parameters
GenEnter(a) ==
  /\ gPc' = "retrying"
  /\ args' = a
  /\ parts' = BuildParts(a)
  /\ modelName' = ModelName(a.useProModel)
  /\ imageConfig' = ImageConfig(a)
  /\ requests' = <<>>
  /\ gOut' = NoOutcome
  /\ RetryEnter(DefaultMaxRetries, DefaultBaseDelay)

\* the request apiCall sends
Request ==
  [model |-> modelName, parts |-> parts, imageConfig |-> imageConfig]

\* apiCall runs and generateContent rejects with error
ApiCallRejects(error) ==
  /\ gPc = "retrying"
  /\ requests' = Append(requests, Request)
  /\ AttemptReject(error)
  /\ UNCHANGED <<gPc, args, parts, modelName, imageConfig, gOut>>
  /\ UNCHANGED uiVars

\* apiCall runs and generateContent resolves with a response
ApiCallResponds(responseParts) ==
  /\ gPc = "retrying"
  /\ requests' = Append(requests, Request)
  /\ LET o == ApiCallOutcome(responseParts) IN
       IF o.ok THEN AttemptResolve(o.value) ELSE AttemptReject(o.error)
  /\ UNCHANGED <<gPc, args, parts, modelName, imageConfig, gOut>>
  /\ UNCHANGED uiVars

\* return await retryOperation(apiCall)
GenReturn ==
  /\ gPc = "retrying"
  /\ rPc = "returned"
  /\ gPc' = "returned"
  /\ gOut' = Returned(rOut.value)
  /\ UNCHANGED <<args, parts, modelName, imageConfig, requests>>
  /\ UNCHANGED retryVars
  /\ UNCHANGED uiVars

\* catch (error): the classifier
GenCatch ==
  /\ gPc = "retrying"
  /\ rPc = "thrown"
  /\ gPc' = "thrown"
  /\ gOut' = Thrown(MkError({}, 0, ClassifyError(rOut.error, args.useProModel)))
  /\ UNCHANGED <<args, parts, modelName, imageConfig, requests>>
  /\ UNCHANGED retryVars
  /\ UNCHANGED uiVars

\* ------------------------------------------------------------------ inputs

\* The errors an operation (the service call) is made to raise: every
\* needle alone, the combinations the code orders its tests for, a status
\* field that does not show in the serialization, and messages with and
\* without the credential phrases the UI looks for.
OperationErrors ==
  { MkError({"429"}, 429, "429 Too Many Requests"),
    MkError({"RESOURCE_EXHAUSTED"}, 0, ""),
    MkError({"quota"}, 0, "You exceeded your current plan"),
    MkError({"503"}, 503, "The model is overloaded"),
    MkError({}, 429, "rate limited"),
    MkError({}, 503, ""),
    MkError({"503", "404"}, 0, "overloaded"),
    MkError({"429", "403"}, 0, "denied"),
    MkError({"limit: 0", "429", "quota"}, 429, "exceeded"),
    MkError({"limit:0"}, 0, ""),
    MkError({"limit: 0", "503"}, 503, "overloaded"),
    MkError({"403", "PERMISSION_DENIED"}, 403, "The caller does not have permission"),
    MkError({"404", "NOT_FOUND"}, 404, "Requested entity was not found."),
    MkError({"NOT_FOUND"}, 0, ""),
    MkError({"limit"}, 0, "soft cap"),
    MkError({}, 0, "fetch failed"),
    MkError({}, 0, ""),
    MkError({}, 0, "Requested entity was not found."),
    MkError({}, 0, "API Key not found") }

\* the values an operation is made to return when retryOperation is called
\* on its own
OperationValues == {"valueA", "valueB"}

BaseDelays == {DefaultBaseDelay, 250}

\* the parts of the first candidate of a response; no candidate reads as <<>>
ServiceResponses ==
  { << >>,
    << TextPart(<<"Here is your ad">>) >>,
    << TextPart(<<"Here is your ad">>), InlineDataPart("AAAA", "image/png"),
       InlineDataPart("BBBB", "image/png") >>,
    << InlineDataPart("BBBB", "image/png") >> }

AspectRatios == {"1:1", "9:16", "16:9", "3:4", "4:3"}

\* the arguments generateAdvertisementImage is called with
CallArgs ==
  [description : {"golden hour beach shot"},
   productBase64 : {<<"data:image/jpeg;base64", "PPPP">>},
   productMimeType : {"image/jpeg"},
   logoBase64 : {Null, <<"LLLL">>, <<"data:image/png;base64", "LLLL">>},
   logoMimeType : {NullString, "image/png"},
   aspectRatio : AspectRatios,
   useProModel : BOOLEAN]

\* -------------------------------------------------- retryOperation on its own

RetryIdle ==
  /\ rPc = "idle"
  /\ maxRetries = 0 /\ baseDelay = 0 /\ i = 0
  /\ lastError = Undefined /\ rOut = NoOutcome
  /\ attempts = <<>> /\ delays = <<>>

GenIdle ==
  /\ gPc = "idle"
  /\ args = NoArgs /\ parts = <<>> /\ modelName = "" /\ imageConfig = NoImageConfig
  /\ requests = <<>> /\ gOut = NoOutcome

NoImage == [base64 |-> Null, mimeType |-> NullString]
IdleResult == [imageUrl |-> "", loading |-> FALSE, error |-> NullString]

\* the useState initial values of App
AppInitial ==
  /\ isCheckingKey = TRUE
  /\ hasApiKey = FALSE
  /\ productImage = NoImage
  /\ logoImage = NoImage
  /\ description = ""
  /\ aspectRatio = "1:1"
  /\ useProModel = FALSE
  /\ shareCaption = ""
  /\ result = IdleResult
  /\ hPc = "idle"

\* no App is mounted: the service module is used on its own
AppUnmounted == AppInitial /\ aistudio = FALSE /\ envApiKey = ""

InitRetry == RetryIdle /\ GenIdle /\ AppUnmounted

RetryOperationCall ==
  /\ rPc = "idle"
  /\ gPc = "idle"
  /\ \E mr \in 1..MaxRetriesBound, bd \in BaseDelays : RetryEnter(mr, bd)
  /\ UNCHANGED <<genVars, uiVars>>

OperationResolves ==
  /\ gPc = "idle"
  /\ \E v \in OperationValues : AttemptResolve(v)
  /\ UNCHANGED <<genVars, uiVars>>

OperationRejects ==
  /\ gPc = "idle"
  /\ \E e \in OperationErrors : AttemptReject(e)
  /\ UNCHANGED <<genVars, uiVars>>

\* the backoff timer of the pending retryOperation fires
RetryTimerFires == TimerFires /\ UNCHANGED <<genVars, uiVars>>

\* the loop of the pending retryOperation ends
RetryLoopExit == LoopExit /\ UNCHANGED <<genVars, uiVars>>

NextRetry ==
  \/ RetryOperationCall
  \/ OperationResolves
  \/ OperationRejects
  \/ RetryTimerFires
  \/ RetryLoopExit

SpecRetry == InitRetry /\ [][NextRetry]_vars

\* --------------------------------------------------- claims: retryOperation

\* the markers as the claims name them, read off the error value itself
CarriesZeroQuota(e) == e.marks \cap {"limit: 0", "limit:0"} # {}
CarriesRateOrOverload(e) ==
  \/ e.marks \cap {"429", "RESOURCE_EXHAUSTED", "quota", "503"} # {}
  \/ e.status \in {429, 503}

RetryableFailure(o) ==
  ~o.ok /\ CarriesRateOrOverload(o.error) /\ ~CarriesZeroQuota(o.error)

Finished == rPc \in {"returned", "thrown"}

\* C1: when every invocation of the operation failed with a rate-limit or
\* overload marker and no zero-quota marker, a finished retryOperation has
\* invoked it exactly maxRetries times, has waited baseDelay * 2^(k-1)
\* between attempt k and attempt k+1, and has thrown the failure of the last
\* attempt; in no state has the operation been invoked more than maxRetries
\* times.
C1_ExhaustsAfterMaxRetries ==
  /\ Len(attempts) <= maxRetries
  /\ (Finished /\ \A k \in 1..Len(attempts) : RetryableFailure(attempts[k]))
       => /\ Len(attempts) = maxRetries
          /\ \A k \in 1..(maxRetries - 1) : delays[k] = baseDelay * 2^(k - 1)
          /\ \A k \in 1..(maxRetries - 2) : delays[k] < delays[k + 1]
          /\ rOut = Thrown(attempts[maxRetries].error)

C1_Witness ==
  /\ rPc = "thrown"
  /\ maxRetries = 3
  /\ Len(attempts) = 3
  /\ \A k \in 1..3 : RetryableFailure(attempts[k])
  /\ attempts[3].error.marks = {"503"}

\* C2: an attempt that fails with a zero-quota marker is the last
\* invocation: the call has thrown QUOTA_ZERO, whatever else the error
\* carries, and no delay was started for that attempt.
C2_ZeroQuotaAbortsAtOnce ==
  \A k \in 1..Len(attempts) :
    (~attempts[k].ok /\ CarriesZeroQuota(attempts[k].error))
      => /\ k = Len(attempts)
         /\ rPc = "thrown"
         /\ rOut.kind = "throw"
         /\ rOut.error.message = "QUOTA_ZERO"
         /\ Len(delays) = k - 1

C2_Witness ==
  /\ Len(attempts) = 2
  /\ CarriesZeroQuota(attempts[2].error)
  /\ CarriesRateOrOverload(attempts[2].error)
  /\ rPc = "thrown"

\* C3: a success on attempt k, after retryable failures on attempts 1..k-1,
\* is the last invocation: the call has returned exactly that value after k
\* invocations and k-1 delays.
C3_SuccessEndsTheLoop ==
  \A k \in 1..Len(attempts) :
    (attempts[k].ok /\ \A j \in 1..(k - 1) : RetryableFailure(attempts[j]))
      => /\ k = Len(attempts)
         /\ k <= maxRetries
         /\ rPc = "returned"
         /\ rOut = Returned(attempts[k].value)
         /\ Len(delays) = k - 1

C3_Witness ==
  /\ maxRetries = 3
  /\ Len(attempts) = 3
  /\ attempts[3].ok
  /\ rPc = "returned"

\* C4: an attempt that fails with an error carrying neither a zero-quota
\* nor a rate-limit nor an overload marker is the last invocation: the call
\* has thrown that same error and no delay was started for that attempt.
C4_OtherErrorsRethrownAtOnce ==
  \A k \in 1..Len(attempts) :
    (/\ ~attempts[k].ok
     /\ ~CarriesZeroQuota(attempts[k].error)
     /\ ~CarriesRateOrOverload(attempts[k].error))
      => /\ k = Len(attempts)
         /\ rPc = "thrown"
         /\ rOut = Thrown(attempts[k].error)
         /\ Len(delays) = k - 1

C4_Witness ==
  /\ Len(attempts) = 3
  /\ ~attempts[3].ok
  /\ attempts[3].error.marks = {"403", "PERMISSION_DENIED"}
  /\ rPc = "thrown"

\* ---------------------------------- generateAdvertisementImage on its own

\* the exported function called with any arguments of its declared types
GenerateCall ==
  /\ gPc = "idle"
  /\ \E a \in CallArgs : GenEnter(a)
  /\ UNCHANGED uiVars

ServiceRejects == \E e \in OperationErrors : ApiCallRejects(e)

ServiceResponds == \E r \in ServiceResponses : ApiCallResponds(r)

InitGen == RetryIdle /\ GenIdle /\ AppUnmounted

NextGen ==
  \/ GenerateCall
  \/ ServiceRejects
  \/ ServiceResponds
  \/ RetryTimerFires
  \/ RetryLoopExit
  \/ GenReturn
  \/ GenCatch

SpecGen == InitGen /\ [][NextGen]_vars

\* ------------------------------------------------ the classifier on its own

\* every error value the classifier can be handed: any set of needles, with
\* or without a message, and the QUOTA_ZERO signal of retryOperation
ClassifierErrors ==
  { MkError(m, 0, msg) :
      m \in SUBSET Markers, msg \in {"", "fetch failed", "QUOTA_ZERO"} }

\* the catch block of generateAdvertisementImage is entered with any error
\* and either tier
InitClassify ==
  /\ AppUnmounted
  /\ gPc = "retrying"
  /\ requests = <<>> /\ gOut = NoOutcome
  /\ \E a \in CallArgs :
       /\ a.logoBase64 = Null /\ a.logoMimeType = NullString /\ a.aspectRatio = "1:1"
       /\ args = a
       /\ parts = BuildParts(a)
       /\ modelName = ModelName(a.useProModel)
       /\ imageConfig = ImageConfig(a)
  /\ rPc = "thrown"
  /\ maxRetries = DefaultMaxRetries /\ baseDelay = DefaultBaseDelay /\ i = 0
  /\ attempts = <<>> /\ delays = <<>>
  /\ \E e \in ClassifierErrors : lastError = e /\ rOut = Thrown(e)

SpecClassify == InitClassify /\ [][GenCatch]_vars

\* --------------------------------- claims: generateAdvertisementImage

\* C5: the message thrown for an error is fixed by strict priority:
\* zero-quota signal, then 403 / PERMISSION_DENIED on the pro tier, then
\* 404 / NOT_FOUND, then 429 / RESOURCE_EXHAUSTED / quota / limit, then the
\* error's own message or the generic one; a zero-quota error never gets
\* the free-tier message.
C5_ClassifierPriority ==
  gPc = "thrown" =>
    LET e == rOut.error
        pro == args.useProModel
        msg == gOut.error.message
        zero == e.message = "QUOTA_ZERO" \/ e.marks \cap {"limit: 0", "limit:0"} # {}
        denied == pro /\ e.marks \cap {"403", "PERMISSION_DENIED"} # {}
        notFound == e.marks \cap {"404", "NOT_FOUND"} # {}
        rate == e.marks \cap {"429", "RESOURCE_EXHAUSTED", "quota", "limit"} # {}
    IN /\ zero => msg = AccessRestrictedMessage /\ msg # FreeTierLimitMessage
       /\ (~zero /\ denied) => msg = BillingRequiredMessage
       /\ (~zero /\ ~denied /\ notFound) =>
            msg = IF pro
                    THEN "Model not available. The Pro model is not accessible with your current API key."
                    ELSE "Model not available. The Standard model is not accessible with your current API key."
       /\ (~zero /\ ~denied /\ ~notFound /\ rate) => msg = FreeTierLimitMessage
       /\ (~zero /\ ~denied /\ ~notFound /\ ~rate) =>
            msg = IF e.message = "" THEN "Failed to generate advertisement." ELSE e.message

C5_Witness ==
  /\ gPc = "thrown"
  /\ rOut.error.marks = {"limit: 0", "429", "quota", "404", "403"}
  /\ args.useProModel
  /\ gOut.error.message = AccessRestrictedMessage

\* C6: a finished call has either returned an image data URL, and then
\* retryOperation returned it, or thrown an error with a non-empty message,
\* and then retryOperation threw; never anything else.
C6_ImageOrMessage ==
  /\ gPc = "returned" =>
       /\ rPc = "returned"
       /\ gOut.kind = "return"
       /\ gOut.value \in {"data:image/png;base64,AAAA", "data:image/png;base64,BBBB"}
       /\ attempts[Len(attempts)].ok
  /\ gPc = "thrown" =>
       /\ rPc = "thrown"
       /\ gOut.kind = "throw"
       /\ gOut.error.message # ""
  /\ gPc \in {"idle", "retrying"} => gOut.kind = "none"

C6_Witness ==
  /\ gPc = "thrown"
  /\ rOut.error = MkError({}, 0, "")
  /\ gOut.error.message = GenericFailureMessage

HasLogoPart(ps) ==
  \E k \in 1..(Len(ps) - 1) :
    /\ ps[k].kind = "inlineData"
    /\ ps[k + 1].kind = "text"
    /\ ps[k + 1].text = <<"Brand Logo">>

HasCompositingDirective(ps) ==
  \E k \in 1..Len(ps) :
    /\ ps[k].kind = "text"
    /\ \E l \in 1..Len(ps[k].text) : ps[k].text[l] = LogoDirectiveLine

\* C7: in the payload of a call the labeled logo part and the compositing
\* directive are present together or absent together, and present exactly
\* when the logoBase64 argument holds a logo.
C7_LogoPartIffDirective ==
  gPc # "idle" =>
    /\ HasLogoPart(parts) <=> HasCompositingDirective(parts)
    /\ HasLogoPart(parts) <=> TruthyBase64(args.logoBase64)

\* C8: every request of a call names the model of the tier (standard: the
\* free-tier model, no imageSize; pro: the pro model, imageSize "1K") and
\* the aspect ratio of the call, one request per attempt.
C8_TierFixesModel ==
  /\ Len(requests) = Len(attempts)
  /\ \A k \in 1..Len(requests) :
       /\ requests[k].imageConfig.aspectRatio = args.aspectRatio
       /\ args.useProModel =>
            /\ requests[k].model = "gemini-3-pro-image-preview"
            /\ requests[k].imageConfig.imageSize = "1K"
       /\ ~args.useProModel =>
            /\ requests[k].model = "gemini-2.5-flash-image"
            /\ requests[k].imageConfig.imageSize = ""

C8_Witness ==
  /\ Len(requests) = 3
  /\ args.useProModel
  /\ args.aspectRatio = "9:16"
  /\ gPc = "thrown"

\* ---------------------------------------------------------------------- App

ProductImages ==
  { [base64 |-> <<"data:image/jpeg;base64", "PPPP">>, mimeType |-> "image/jpeg"] }
LogoImages ==
  { [base64 |-> <<"data:image/png;base64", "LLLL">>, mimeType |-> "image/png"] }
Descriptions == {"", "  ", "golden hour beach shot"}
UiAspectRatios == {"1:1", "9:16"}
EnvApiKeys == {"", "KEY"}

\* the errors the service is made to raise under the App
ServiceErrors ==
  { MkError({"429"}, 429, "429 Too Many Requests"),
    MkError({"503"}, 503, "The model is overloaded"),
    MkError({"limit: 0", "429", "quota"}, 429, "exceeded"),
    MkError({"403", "PERMISSION_DENIED"}, 403, "The caller does not have permission"),
    MkError({"404", "NOT_FOUND"}, 404, "Requested entity was not found."),
    MkError({}, 0, "Requested entity was not found."),
    MkError({}, 0, "API Key not found"),
    MkError({}, 0, "") }

MissingKeyMessage ==
  "API Key not found. Please check your .env file contains VITE_API_KEY."
ReconnectMessage == "Session expired or API Key invalid. Please reconnect."
SomethingWrongMessage == "Something went wrong during generation."

\* String.prototype.includes on a message, for the phrases the App looks for
MessageIncludes(message, needle) ==
  CASE needle = "Requested entity was not found" ->
         message \in {"Requested entity was not found."}
    [] needle = "API Key not found" ->
         message \in {"API Key not found", MissingKeyMessage}
    [] needle = "expired" -> message \in {ReconnectMessage}
    [] needle = "reconnect" -> message \in {ReconnectMessage}
    [] needle = "API Key" ->
         message \in {"API Key not found", MissingKeyMessage, ReconnectMessage}

\* description.trim()
Trim(text) == IF text = "  " THEN "" ELSE text

isFormValid == productImage # NoImage /\ Trim(description) # ""

\* neither the loading screen nor the welcome screen is rendered
MainScreen == ~isCheckingKey /\ hasApiKey

\* JSON.stringify of an Error: no enumerable own property
JsonStringify(err) == "{}"

\* errorMessage of the catch block of handleGenerate (err is an object)
ErrorMessageOf(err) ==
  LET m1 == err.message
      m2 == IF m1 = "" THEN JsonStringify(err) ELSE m1
  IN IF m2 = "" THEN SomethingWrongMessage ELSE m2

IsCredentialError_EntityOnly(errorMessage) ==
  MessageIncludes(errorMessage, "Requested entity was not found")

IsCredentialError(errorMessage) ==
  \/ MessageIncludes(errorMessage, "Requested entity was not found")
  \/ MessageIncludes(errorMessage, "API Key not found")

LoadingResult_NotLoading(prev) ==
  [imageUrl |-> "", loading |-> FALSE, error |-> NullString]

LoadingResult_Spread(prev) == [prev EXCEPT !.loading = TRUE]

\* setResult({ imageUrl: "", loading: true, error: null })
LoadingResult(prev) == [imageUrl |-> "", loading |-> TRUE, error |-> NullString]

SuccessResult(generatedImage) ==
  [imageUrl |-> generatedImage, loading |-> FALSE, error |-> NullString]

FailureResult_NoError(displayError) ==
  [imageUrl |-> "", loading |-> FALSE, error |-> NullString]

FailureResult_StillLoading(displayError) ==
  [imageUrl |-> "", loading |-> TRUE, error |-> displayError]

FailureResult(displayError) ==
  [imageUrl |-> "", loading |-> FALSE, error |-> displayError]

ShareCaption(text) ==
  "Check out this new ad created with Visioncraft AI! #Visioncraft #AI #Design "
    \o text \o "..."

\* the call frames of a settled generateAdvertisementImage are gone
CallsGone ==
  /\ gPc' = "idle"
  /\ args' = NoArgs /\ parts' = <<>> /\ modelName' = "" /\ imageConfig' = NoImageConfig
  /\ requests' = <<>> /\ gOut' = NoOutcome
  /\ rPc' = "idle"
  /\ maxRetries' = 0 /\ baseDelay' = 0 /\ i' = 0
  /\ lastError' = Undefined /\ rOut' = NoOutcome
  /\ attempts' = <<>> /\ delays' = <<>>

\* useEffect: checkApiKey
CheckApiKey ==
  /\ isCheckingKey
  /\ isCheckingKey' = FALSE
  /\ IF aistudio
       THEN \E hasKey \in BOOLEAN : hasApiKey' = hasKey
       ELSE hasApiKey' = (envApiKey # "")
  /\ UNCHANGED <<productImage, logoImage, description, aspectRatio, useProModel,
                 shareCaption, result, hPc, aistudio, envApiKey>>
  /\ UNCHANGED <<retryVars, genVars>>

\* "Connect API Key": openSelectKey resolves; the host may then provide
\* the key to the page
HandleApiKeySelect ==
  /\ ~isCheckingKey /\ ~hasApiKey
  /\ aistudio
  /\ hasApiKey' = TRUE
  /\ \E key \in EnvApiKeys : envApiKey' = IF envApiKey = "" THEN key ELSE envApiKey
  /\ UNCHANGED <<isCheckingKey, productImage, logoImage, description, aspectRatio,
                 useProModel, shareCaption, result, hPc, aistudio>>
  /\ UNCHANGED <<retryVars, genVars>>

SetProductImage ==
  /\ MainScreen
  /\ \E img \in ProductImages \cup {NoImage} : productImage' = img
  /\ UNCHANGED <<isCheckingKey, hasApiKey, logoImage, description, aspectRatio,
                 useProModel, shareCaption, result, hPc, aistudio, envApiKey>>
  /\ UNCHANGED <<retryVars, genVars>>

SetLogoImage ==
  /\ MainScreen
  /\ \E img \in LogoImages \cup {NoImage} : logoImage' = img
  /\ UNCHANGED <<isCheckingKey, hasApiKey, productImage, description, aspectRatio,
                 useProModel, shareCaption, result, hPc, aistudio, envApiKey>>
  /\ UNCHANGED <<retryVars, genVars>>

SetDescription ==
  /\ MainScreen
  /\ \E text \in Descriptions : description' = text
  /\ UNCHANGED <<isCheckingKey, hasApiKey, productImage, logoImage, aspectRatio,
                 useProModel, shareCaption, result, hPc, aistudio, envApiKey>>
  /\ UNCHANGED <<retryVars, genVars>>

SetAspectRatio ==
  /\ MainScreen
  /\ \E ratio \in UiAspectRatios : aspectRatio' = ratio
  /\ UNCHANGED <<isCheckingKey, hasApiKey, productImage, logoImage, description,
                 useProModel, shareCaption, result, hPc, aistudio, envApiKey>>
  /\ UNCHANGED <<retryVars, genVars>>

SetUseProModel ==
  /\ MainScreen
  /\ \E pro \in BOOLEAN : useProModel' = pro
  /\ UNCHANGED <<isCheckingKey, hasApiKey, productImage, logoImage, description,
                 aspectRatio, shareCaption, result, hPc, aistudio, envApiKey>>
  /\ UNCHANGED <<retryVars, genVars>>

\* the generate button is rendered and not disabled
GenerateEnabled == MainScreen /\ isFormValid /\ ~result.loading

\* the generate button is clicked: handleGenerate up to its await
HandleGenerate ==
  /\ GenerateEnabled
  /\ IF envApiKey = ""
       THEN /\ result' = [result EXCEPT !.error = MissingKeyMessage]
            /\ hasApiKey' = FALSE
            /\ UNCHANGED <<hPc, retryVars, genVars>>
       ELSE IF productImage = NoImage
         THEN UNCHANGED <<result, hasApiKey, hPc, retryVars, genVars>>
         ELSE /\ result' = LoadingResult(result)
              /\ hPc' = "awaiting"
              /\ GenEnter([description |-> description,
                           productBase64 |-> productImage.base64,
                           productMimeType |-> productImage.mimeType,
                           logoBase64 |-> logoImage.base64,
                           logoMimeType |-> logoImage.mimeType,
                           aspectRatio |-> aspectRatio,
                           useProModel |-> useProModel])
              /\ UNCHANGED hasApiKey
  /\ UNCHANGED <<isCheckingKey, productImage, logoImage, description, aspectRatio,
                 useProModel, shareCaption, aistudio, envApiKey>>

\* the await of handleGenerate resolves
GenerateResolved ==
  /\ hPc = "awaiting"
  /\ gPc = "returned"
  /\ result' = SuccessResult(gOut.value)
  /\ shareCaption' = ShareCaption(args.description)
  /\ hPc' = "idle"
  /\ CallsGone
  /\ UNCHANGED <<isCheckingKey, hasApiKey, productImage, logoImage, description,
                 aspectRatio, useProModel, aistudio, envApiKey>>

\* the await of handleGenerate rejects: its catch block
GenerateRejected ==
  /\ hPc = "awaiting"
  /\ gPc = "thrown"
  /\ LET errorMessage == ErrorMessageOf(gOut.error) IN
       IF IsCredentialError(errorMessage)
         THEN /\ hasApiKey' = FALSE
              /\ result' = FailureResult(ReconnectMessage)
         ELSE /\ UNCHANGED hasApiKey
              /\ result' = FailureResult(errorMessage)
  /\ hPc' = "idle"
  /\ CallsGone
  /\ UNCHANGED <<isCheckingKey, productImage, logoImage, description, aspectRatio,
                 useProModel, shareCaption, aistudio, envApiKey>>

\* "New Design"
NewDesign ==
  /\ MainScreen
  /\ result.imageUrl # "" /\ ~result.loading
  /\ result' = IdleResult
  /\ UNCHANGED <<isCheckingKey, hasApiKey, productImage, logoImage, description,
                 aspectRatio, useProModel, shareCaption, hPc, aistudio, envApiKey>>
  /\ UNCHANGED <<retryVars, genVars>>

\* "Reconnect Account"
ReconnectAccount ==
  /\ MainScreen
  /\ result.error \notin {NullString, ""}
  /\ \/ MessageIncludes(result.error, "expired")
     \/ MessageIncludes(result.error, "reconnect")
     \/ MessageIncludes(result.error, "API Key")
  /\ hasApiKey' = FALSE
  /\ UNCHANGED <<isCheckingKey, productImage, logoImage, description, aspectRatio,
                 useProModel, shareCaption, result, hPc, aistudio, envApiKey>>
  /\ UNCHANGED <<retryVars, genVars>>

ServiceFails == \E e \in ServiceErrors : ApiCallRejects(e)

Init ==
  /\ RetryIdle /\ GenIdle /\ AppInitial
  /\ aistudio \in BOOLEAN
  /\ envApiKey \in EnvApiKeys

Next ==
  \/ CheckApiKey
  \/ HandleApiKeySelect
  \/ SetProductImage
  \/ SetLogoImage
  \/ SetDescription
  \/ SetAspectRatio
  \/ SetUseProModel
  \/ HandleGenerate
  \/ ServiceFails
  \/ ServiceResponds
  \/ RetryTimerFires
  \/ RetryLoopExit
  \/ GenReturn
  \/ GenCatch
  \/ GenerateResolved
  \/ GenerateRejected
  \/ NewDesign
  \/ ReconnectAccount

Spec == Init /\ [][Next]_vars

\* ------------------------------------------------------------- claims: App

\* C9: in every state of the result record at most one of: an image, the
\* loading flag, an error.
C9_AtMostOneOfImageLoadingError ==
  Cardinality({ k \in {"image", "loading", "error"} :
                  \/ k = "image" /\ result.imageUrl # ""
                  \/ k = "loading" /\ result.loading
                  \/ k = "error" /\ result.error # NullString }) <= 1

C9_Witness ==
  /\ shareCaption # ""
  /\ result.imageUrl = ""
  /\ result.loading = FALSE
  /\ result.error = FreeTierLimitMessage

\* C10: the step of handleGenerate that takes a thrown
\* generateAdvertisementImage leaves the result record with loading false,
\* a non-empty error string and no image.
C10_FailureLeavesError ==
  [][(hPc = "awaiting" /\ gPc = "thrown" /\ hPc' = "idle")
       => /\ result'.loading = FALSE
          /\ result'.error \notin {NullString, ""}
          /\ result'.imageUrl = ""]_vars

C10_Witness ==
  /\ hPc = "idle"
  /\ result = [imageUrl |-> "", loading |-> FALSE, error |-> GenericFailureMessage]

\* a call of generateAdvertisementImage made by handleGenerate has not
\* settled, or handleGenerate has not yet taken its outcome
Pending == hPc = "awaiting"

\* the step of handleGenerate that takes the outcome of the pending call
SettleStep == hPc = "awaiting" /\ gPc \in {"returned", "thrown"} /\ hPc' = "idle"

\* C11: while a call is pending the result record is loading and the
\* generate button is disabled, so no second call can start; and the only
\* step that writes the result record while a call is pending is the one
\* that takes that call's outcome.
C11_SingleRequestInFlight ==
  [][/\ Pending' => (result'.loading /\ ~GenerateEnabled')
     /\ (Pending /\ result' # result) => SettleStep
     /\ (gPc # "idle" \/ rPc # "idle") => Pending]_vars

C11_Witness ==
  /\ Pending
  /\ rPc = "sleep"
  /\ Len(attempts) = 2
  /\ MainScreen /\ isFormValid
  /\ ~GenerateEnabled

\* C12: the step of handleGenerate that takes a thrown call sets hasApiKey
\* to false exactly when the thrown message holds "Requested entity was not
\* found" or "API Key not found", and then shows the reconnect message;
\* otherwise it shows the thrown message and leaves hasApiKey as it was, as
\* for every fixed message of the classifier.
C12_OnlyCredentialErrorsUnauthenticate ==
  [][(hPc = "awaiting" /\ gPc = "thrown" /\ hPc' = "idle") =>
       LET m == gOut.error.message
           signal == m \in {"Requested entity was not found.", "API Key not found"}
       IN /\ hasApiKey
          /\ hasApiKey' = FALSE <=> signal
          /\ signal => result'.error = "Session expired or API Key invalid. Please reconnect."
          /\ ~signal => result'.error = m
          /\ m \in {AccessRestrictedMessage, BillingRequiredMessage,
                    ModelNotAvailableMessage(TRUE), ModelNotAvailableMessage(FALSE),
                    FreeTierLimitMessage}
               => hasApiKey' = hasApiKey]_vars

C12_Witness ==
  /\ hPc = "idle"
  /\ hasApiKey = FALSE
  /\ envApiKey # ""
  /\ result.error = ReconnectMessage
  /\ result.loading = FALSE

\* C13: retryOperation waits only in order to retry: a finished call has
\* started fewer delays than it made attempts, and a call that failed
\* maxRetries times with retryable errors has started maxRetries - 1 delays.
C13_DelaysOnlyBetweenAttempts ==
  Finished =>
    /\ Len(delays) < Len(attempts)
    /\ (\A k \in 1..Len(attempts) : RetryableFailure(attempts[k]))
         => Len(delays) = maxRetries - 1

\* the error retryOperation hands to the catch block of its caller when
\* the operation raised e and the loop ended on it
HandedOn(e) == IF CarriesZeroQuota(e) THEN QuotaZeroError ELSE e

\* C14 as stated: only rate-limit or overload failures are followed by
\* another attempt; a failure of any other kind is the last attempt, starts
\* no delay, and the classifier receives the very error the operation
\* raised.
C14_OtherKindsReachClassifierUnchanged ==
  \A k \in 1..Len(attempts) :
    /\ k < Len(attempts) => RetryableFailure(attempts[k])
    /\ (~attempts[k].ok /\ ~RetryableFailure(attempts[k]))
         => /\ k = Len(attempts)
            /\ Len(delays) = k - 1
            /\ rPc = "thrown"
            /\ rOut = Thrown(attempts[k].error)

\* C14 amended: only rate-limit or overload failures are followed by
\* another attempt; a failure of any other kind is the last attempt and
\* starts no delay; a permission, not-found or unknown error reaches the
\* classifier as the same error, a zero-quota error reaches it as the
\* QUOTA_ZERO error put in its place, which the classifier labels as access
\* restricted.
C14_OnlyRateLimitOrOverloadRetried ==
  \A k \in 1..Len(attempts) :
    /\ k < Len(attempts) => RetryableFailure(attempts[k])
    /\ (~attempts[k].ok /\ ~RetryableFailure(attempts[k]))
         => /\ k = Len(attempts)
            /\ Len(delays) = k - 1
            /\ rPc = "thrown"
            /\ rOut = Thrown(HandedOn(attempts[k].error))
            /\ gPc = "thrown" =>
                 gOut.error.message =
                   ClassifyError(HandedOn(attempts[k].error), args.useProModel)
            /\ (gPc = "thrown" /\ CarriesZeroQuota(attempts[k].error))
                 => gOut.error.message = AccessRestrictedMessage

C14_Witness ==
  /\ gPc = "thrown"
  /\ Len(attempts) = 1
  /\ attempts[1].error = MkError({"limit:0"}, 0, "")
  /\ rOut.error # attempts[1].error
  /\ Len(delays) = 0
  /\ gOut.error.message = AccessRestrictedMessage

\* C15: when all maxRetries attempts failed with retryable errors, the
\* error thrown is the error of the last attempt and none of the earlier
\* errors that differ from it.
C15_ExhaustionThrowsLastError ==
  (/\ rPc = "thrown"
   /\ Len(attempts) = maxRetries
   /\ \A k \in 1..maxRetries : RetryableFailure(attempts[k]))
    => /\ rOut = Thrown(attempts[maxRetries].error)
       /\ rOut.error = lastError
       /\ \A k \in 1..(maxRetries - 1) :
            attempts[k].error # attempts[maxRetries].error
              => rOut.error # attempts[k].error

C15_Witness ==
  /\ rPc = "thrown"
  /\ maxRetries = 3
  /\ Len(attempts) = 3
  /\ \A k \in 1..3 : RetryableFailure(attempts[k])
  /\ \A j, k \in 1..3 : j # k => attempts[j].error # attempts[k].error
  /\ rOut.error = attempts[3].error

\* the positions of the parts of a response that hold inline data
InlinePositions(responseParts) ==
  {n \in 1..Len(responseParts) : responseParts[n].kind = "inlineData"}

\* C16: a response whose first candidate holds a part with inline data
\* makes the call return the data URL of the first such part; a response
\* without one is a failure that ends the loop at once: no further request
\* follows the one it answered, no delay is started, and the caller is
\* thrown the message "No image was generated. ..." as it is.
C16_ImageResponseOrNoImageFailure ==
  [][/\ \A rp \in ServiceResponses :
          ApiCallResponds(rp) =>
            /\ Len(requests') = Len(requests) + 1
            /\ Len(attempts') = Len(requests')
            /\ delays' = delays
            /\ IF InlinePositions(rp) # {}
                 THEN LET first == CHOOSE n \in InlinePositions(rp) :
                                     \A m \in InlinePositions(rp) : n <= m
                      IN /\ rPc' = "returned"
                         /\ rOut' = Returned("data:image/png;base64," \o rp[first].data)
                 ELSE /\ rPc' = "thrown"
                      /\ rOut'.kind = "throw"
                      /\ rOut'.error.message =
                           "No image was generated. The model might have returned only text."
     /\ rPc \in {"returned", "thrown"} => (requests' = requests \/ gPc' = "idle")
     /\ (gPc = "retrying" /\ gPc' = "returned") => gOut' = Returned(rOut.value)
     /\ (gPc = "retrying" /\ gPc' = "thrown" /\ rOut.error = NoImageError)
          => gOut'.error.message =
               "No image was generated. The model might have returned only text."]_vars

C16_Witness ==
  /\ gPc = "thrown"
  /\ Len(requests) = 2
  /\ Len(delays) = 1
  /\ attempts[2] = Rejected(NoImageError)
  /\ gOut.error.message = NoImageError.message

\* every service call returns or fails, every backoff timer fires, and the
\* code between two awaits runs on
SpecLive ==
  /\ Spec
  /\ WF_vars(ServiceFails \/ ServiceResponds)
  /\ WF_vars(RetryTimerFires)
  /\ WF_vars(RetryLoopExit)
  /\ WF_vars(GenReturn \/ GenCatch)
  /\ WF_vars(GenerateResolved \/ GenerateRejected)

\* C17: a loading result record is eventually followed by one that is not
\* loading and holds an image or an error, and the only step that ends
\* loading is the one in which handleGenerate takes the outcome of its
\* pending call.
C17_EveryRequestTerminates ==
  /\ result.loading ~>
       (~result.loading /\ (result.imageUrl # "" \/ result.error \notin {NullString, ""}))
  /\ [][(result.loading /\ ~result'.loading) => SettleStep]_vars

C17_Witness ==
  /\ ~result.loading
  /\ result.error = FreeTierLimitMessage
  /\ hPc = "idle"
  /\ shareCaption = ""

\* the step in which handleGenerate starts a request
StartStep == hPc = "idle" /\ hPc' = "awaiting"

\* C18: the step that starts a request leaves the result record with no
\* image, no error and loading = true, whatever it held before; the "New
\* Design" step leaves it with no image, no error and loading = false.
C18_StartAndNewDesignReset ==
  [][/\ StartStep =>
          result' = [imageUrl |-> "", loading |-> TRUE, error |-> NullString]
     /\ NewDesign =>
          result' = [imageUrl |-> "", loading |-> FALSE, error |-> NullString]]_vars

C18_Witness ==
  /\ hPc = "awaiting"
  /\ shareCaption # ""
  /\ result = [imageUrl |-> "", loading |-> TRUE, error |-> NullString]
  /\ Len(attempts) = 0

\* the sub-state of the ready screen a result record stands for
SubStateOf(r) ==
  IF r.loading THEN "generating"
  ELSE IF r.imageUrl # "" THEN "success"
  ELSE IF r.error \notin {NullString, ""} THEN "failed"
  ELSE "idle"

\* what the user can do on the page
UserAction ==
  \/ HandleApiKeySelect
  \/ SetProductImage \/ SetLogoImage \/ SetDescription
  \/ SetAspectRatio \/ SetUseProModel
  \/ HandleGenerate
  \/ NewDesign
  \/ ReconnectAccount

ReturnsToIdle == UserAction /\ SubStateOf(result') = "idle"

\* C19 as stated: generating is entered only by a submit, success and
\* failed are entered only from generating, and in success and in failed
\* some user action returns the result record to idle.
C19_SubStateMachine ==
  [][/\ (SubStateOf(result) # "generating" /\ SubStateOf(result') = "generating")
          => StartStep
     /\ (SubStateOf(result') \in {"success", "failed"}
           /\ SubStateOf(result') # SubStateOf(result))
          => SubStateOf(result) = "generating"
     /\ (MainScreen /\ SubStateOf(result) \in {"success", "failed"})
          => ENABLED ReturnsToIdle]_vars

\* C19 amended: generating is entered only by a submit and left only to
\* success or failed, by the step that takes the call's outcome; success is
\* entered only from generating; failed is entered from generating, or from
\* idle by a submit that finds no API key; "New Design" returns success to
\* idle; no user action returns failed to idle: failed is left only by a
\* submit, to generating.
C19_SubStateMachineAsBuilt ==
  [][/\ (SubStateOf(result) # "generating" /\ SubStateOf(result') = "generating")
          => StartStep
     /\ (SubStateOf(result) = "generating" /\ SubStateOf(result') # "generating")
          => (SettleStep /\ SubStateOf(result') \in {"success", "failed"})
     /\ (SubStateOf(result) # "success" /\ SubStateOf(result') = "success")
          => SubStateOf(result) = "generating"
     /\ (SubStateOf(result) # "failed" /\ SubStateOf(result') = "failed")
          => \/ SubStateOf(result) = "generating"
             \/ /\ SubStateOf(result) = "idle"
                /\ envApiKey = ""
                /\ result'.error = MissingKeyMessage
                /\ hasApiKey' = FALSE
     /\ (MainScreen /\ SubStateOf(result) = "success")
          => ENABLED (NewDesign /\ SubStateOf(result') = "idle")
     /\ SubStateOf(result) = "failed" => ~ENABLED ReturnsToIdle
     /\ (SubStateOf(result) = "failed" /\ SubStateOf(result') # "failed")
          => (StartStep /\ SubStateOf(result') = "generating")
     /\ (SubStateOf(result) = "success" /\ SubStateOf(result') # "success")
          => SubStateOf(result') \in {"idle", "generating"}]_vars

C19_Witness ==
  /\ MainScreen
  /\ hPc = "idle"
  /\ SubStateOf(result) = "failed"
  /\ result.error = BillingRequiredMessage
  /\ isFormValid

\* C20: a failure whose text holds "limit" and no other needle, with no
\* 429 or 503 status, is not retried: the attempt is the last one, starts no
\* delay and its error is rethrown; generateAdvertisementImage then throws
\* the free-tier-limit message for it.
C20_BareLimitNotRetriedButRateLabelled ==
  \A k \in 1..Len(attempts) :
    (/\ ~attempts[k].ok
     /\ attempts[k].error.marks = {"limit"}
     /\ attempts[k].error.status \notin {429, 503})
      => /\ k = Len(attempts)
         /\ Len(delays) = k - 1
         /\ Len(requests) = k
         /\ rPc = "thrown"
         /\ rOut = Thrown(attempts[k].error)
         /\ gPc = "thrown" => gOut.error.message = FreeTierLimitMessage

C20_Witness ==
  /\ gPc = "thrown"
  /\ Len(attempts) = 1
  /\ Len(delays) = 0
  /\ attempts[1].error.marks = {"limit"}
  /\ gOut.error.message = FreeTierLimitMessage

\* an error that carries the overload marker and no other needle
OverloadOnly(e) ==
  /\ e.marks \subseteq {"503"}
  /\ e.status \in {0, 503}
  /\ "503" \in e.marks \/ e.status = 503

\* C21: a call whose every attempt failed with an overload-only error has
\* made maxRetries attempts, and generateAdvertisementImage then throws the
\* message of the last error, or the generic message when that is empty,
\* and never the free-tier-limit message.
C21_OverloadExhaustsThenFallsThrough ==
  (/\ gPc = "thrown"
   /\ \A k \in 1..Len(attempts) :
        ~attempts[k].ok /\ OverloadOnly(attempts[k].error))
    => /\ Len(attempts) = maxRetries
       /\ Len(requests) = maxRetries
       /\ rOut = Thrown(attempts[maxRetries].error)
       /\ gOut.error.message =
            (IF attempts[maxRetries].error.message # ""
               THEN attempts[maxRetries].error.message
               ELSE "Failed to generate advertisement.")
       /\ gOut.error.message # FreeTierLimitMessage

C21_Witness ==
  /\ gPc = "thrown"
  /\ Len(attempts) = 3
  /\ \A k \in 1..3 : ~attempts[k].ok /\ OverloadOnly(attempts[k].error)
  /\ attempts[1].error.message = ""
  /\ attempts[3].error.marks = {"503"}
  /\ gOut.error.message = "The model is overloaded"

\* C22: a submit that finds no API key or no product image sends no
\* request, and with no key it writes the error and hasApiKey = false
\* without loading; any other submit starts a call whose attempt index
\* and delays start from zero, which sends its requests one at a time, each
\* answered before the next, at most three of them, and which has sent at
\* least one when handleGenerate takes its outcome.
C22_RequestsPerSubmissionBounded ==
  [][/\ (HandleGenerate /\ (envApiKey = "" \/ productImage = NoImage))
          => /\ requests' = <<>> /\ gPc' = "idle" /\ rPc' = "idle" /\ hPc' = "idle"
             /\ ~result'.loading
             /\ envApiKey = "" =>
                  (result'.error = MissingKeyMessage /\ hasApiKey' = FALSE)
     /\ StartStep
          => /\ envApiKey # "" /\ productImage # NoImage
             /\ i' = 0 /\ requests' = <<>> /\ attempts' = <<>> /\ delays' = <<>>
     /\ (requests' # requests /\ gPc' # "idle")
          => /\ Pending
             /\ requests' = Append(requests, Request)
             /\ Len(requests') = i + 1
             /\ Len(attempts') = Len(requests')
     /\ Len(requests') <= 3
     /\ \A k \in 1..Len(delays') : delays'[k] = 10000 * 2^(k - 1)
     /\ SettleStep => Len(requests) \in 1..3]_vars

C22_Witness ==
  /\ hPc = "awaiting"
  /\ shareCaption # ""
  /\ Len(requests) = 3
  /\ delays = <<10000, 20000, 40000>>

====
